---- MODULE Spec2Model ----
(***************************************************************************)
(* phc2sys.c: synchronise a slave clock to a PPS signal or to a master     *)
(* PHC.  The module models the start-up code of main(), its endless loop,  *)
(* the two samplers read_pps() and read_phc(), the servo do_servo() and    *)
(* the two clock adjusting helpers clock_ppb() and clock_step().           *)
(*                                                                         *)
(* Numbers.  All nanosecond quantities are the program's own values; the   *)
(* input sets below keep every intermediate result inside the range of     *)
(* the model checker's integers (|x| < 2^31), far from the 64-bit limits   *)
(* of the program, so no C integer wraps in any run explored here.  A C    *)
(* double is modelled as an exact decimal with one fractional digit (see   *)
(* Dbl below); the gains are multiples of 0.1, so every product and sum    *)
(* the servo forms is exact in that representation.  IEEE rounding of the  *)
(* products is not modelled.                                               *)
(***************************************************************************)
EXTENDS Integers, Sequences, FiniteSets, TLC

(* src/phc2sys.c:37-42; the gains KP 0.7 and KI 0.3 are held in tenths *)
KP == 7
KI == 3
NS_PER_SEC == 1000000000
max_ppb == 512000
min_ppb == -512000

(* enum { SAMPLE_0, SAMPLE_1, SAMPLE_2, SAMPLE_3, SAMPLE_N }, line 117 *)
SAMPLE_0 == 0
SAMPLE_1 == 1
SAMPLE_2 == 2
SAMPLE_3 == 3
SAMPLE_N == 4

(* Clock identifiers.  clock_open() yields CLOCK_INVALID or the id of the  *)
(* opened device; CLOCK_REALTIME is the default destination.               *)
CLOCK_INVALID == "CLOCK_INVALID"
CLOCK_REALTIME == "CLOCK_REALTIME"
SrcPhc == "phc_s"
DstPhc == "phc_c"

(* The contents of a local variable of main() that has not been assigned   *)
(* yet are indeterminate.                                                  *)
Indeterminate == {-1}

(***************************************************************************)
(* Doubles: [w, t] stands for w + t/10 with t in 0..9.                     *)
(***************************************************************************)
Dbl(n) == [w |-> n, t |-> 0]

DblAdd(a, b) ==
    LET s == a.t + b.t
    IN  [w |-> a.w + b.w + (s \div 10), t |-> s % 10]

DblNeg(a) ==
    IF a.t = 0 THEN [w |-> -a.w, t |-> 0]
               ELSE [w |-> -a.w - 1, t |-> 10 - a.t]

DblLt(a, b) == a.w < b.w \/ (a.w = b.w /\ a.t < b.t)

(* gain * n, for a gain of g tenths and an integer n: g*n/10, exactly *)
DblMul(g, n) ==
    LET q == n \div 10
        r == n % 10
    IN  [w |-> g * q + ((g * r) \div 10), t |-> (g * r) % 10]

(***************************************************************************)
(* clock_ppb(), lines 54-62.  The command handed to clock_adjtime() is     *)
(* recorded by its target clock and the ppb argument; ok tells whether     *)
(* clock_adjtime() succeeded (a failure is only reported on stderr).  The  *)
(* kernel scaling tx.freq = (long)(ppb * 65.536) is outside the model's    *)
(* integer range and is not represented.                                   *)
(***************************************************************************)
clock_ppb(clkid, ppb, ok) ==
    [op |-> "freq", clk |-> clkid, ppb |-> ppb, ok |-> ok]

(***************************************************************************)
(* clock_step(), lines 64-86: the timeval handed to clock_adjtime().       *)
(* ns is made non-negative before / and % are applied, so C's truncating   *)
(* division and TLA+'s \div and % agree on the operands used here.         *)
(***************************************************************************)
(* a faulty clock_step(): the borrow of lines 80-83 is left out *)
clock_step_no_borrow(clkid, ns, ok) ==
    LET sign == IF ns < 0 THEN -1 ELSE 1
        mag  == IF ns < 0 THEN ns * (-1) ELSE ns
    IN  [op |-> "step", clk |-> clkid,
         tv_sec  |-> sign * (mag \div NS_PER_SEC),
         tv_usec |-> sign * (mag % NS_PER_SEC),
         ok |-> ok]

clock_step(clkid, ns, ok) ==
    LET sign == IF ns < 0 THEN -1 ELSE 1
        mag  == IF ns < 0 THEN ns * (-1) ELSE ns
        sec0 == sign * (mag \div NS_PER_SEC)
        usec0 == sign * (mag % NS_PER_SEC)
        borrow == usec0 < 0
    IN  [op |-> "step", clk |-> clkid,
         tv_sec  |-> IF borrow THEN sec0 - 1 ELSE sec0,
         tv_usec |-> IF borrow THEN usec0 + 1000000000 ELSE usec0,
         ok |-> ok]

(***************************************************************************)
(* read_phc(), lines 88-111.  rsrc and rdst are what clock_gettime() gives *)
(* for the source and the destination clock: its return value ret and the  *)
(* timespec [tv_sec, tv_nsec].  offset and ts are the caller's variables,  *)
(* returned as they are when nothing is stored; reads lists the clocks     *)
(* read.                                                                   *)
(***************************************************************************)
(* a faulty read_phc(): a failed read of the destination clock goes unnoticed *)
read_phc_misses_error(clkid, sysclk, rdelay, offset, ts, rsrc, rdst) ==
    IF clkid = CLOCK_INVALID
    THEN [ret |-> 0, offset |-> offset, ts |-> ts, reads |-> <<>>]
    ELSE IF rsrc.ret # 0
    THEN [ret |-> 0, offset |-> offset, ts |-> ts, reads |-> <<clkid>>]
    ELSE [ret |-> 1,
          offset |-> rdst.tv_sec * NS_PER_SEC - rsrc.tv_sec * NS_PER_SEC
                     + rdst.tv_nsec - rsrc.tv_nsec - rdelay,
          ts |-> rdst.tv_sec * NS_PER_SEC + rdst.tv_nsec,
          reads |-> <<clkid, sysclk>>]

(* a faulty read_phc(): the delay is added instead of subtracted *)
read_phc_adds_delay(clkid, sysclk, rdelay, offset, ts, rsrc, rdst) ==
    IF clkid = CLOCK_INVALID \/ rsrc.ret # 0 \/ rdst.ret # 0
    THEN [ret |-> 0, offset |-> offset, ts |-> ts,
          reads |-> IF clkid = CLOCK_INVALID THEN <<>>
                    ELSE IF rsrc.ret # 0 THEN <<clkid>> ELSE <<clkid, sysclk>>]
    ELSE [ret |-> 1,
          offset |-> rdst.tv_sec * NS_PER_SEC - rsrc.tv_sec * NS_PER_SEC
                     + rdst.tv_nsec - rsrc.tv_nsec + rdelay,
          ts |-> rdst.tv_sec * NS_PER_SEC + rdst.tv_nsec,
          reads |-> <<clkid, sysclk>>]

(* a faulty read_phc(): the handle is not checked before the clocks are read *)
read_phc_no_guard(clkid, sysclk, rdelay, offset, ts, rsrc, rdst) ==
    IF rsrc.ret # 0
    THEN [ret |-> 0, offset |-> offset, ts |-> ts, reads |-> <<clkid>>]
    ELSE IF rdst.ret # 0
    THEN [ret |-> 0, offset |-> offset, ts |-> ts, reads |-> <<clkid, sysclk>>]
    ELSE [ret |-> 1,
          offset |-> rdst.tv_sec * NS_PER_SEC - rsrc.tv_sec * NS_PER_SEC
                     + rdst.tv_nsec - rsrc.tv_nsec - rdelay,
          ts |-> rdst.tv_sec * NS_PER_SEC + rdst.tv_nsec,
          reads |-> <<clkid, sysclk>>]

(* a faulty read_phc(): an invalid handle is reported as a sample taken *)
read_phc_invalid_ok(clkid, sysclk, rdelay, offset, ts, rsrc, rdst) ==
    IF clkid = CLOCK_INVALID
    THEN [ret |-> 1, offset |-> offset, ts |-> ts, reads |-> <<>>]
    ELSE IF rsrc.ret # 0
    THEN [ret |-> 0, offset |-> offset, ts |-> ts, reads |-> <<clkid>>]
    ELSE IF rdst.ret # 0
    THEN [ret |-> 0, offset |-> offset, ts |-> ts, reads |-> <<clkid, sysclk>>]
    ELSE [ret |-> 1,
          offset |-> rdst.tv_sec * NS_PER_SEC - rsrc.tv_sec * NS_PER_SEC
                     + rdst.tv_nsec - rsrc.tv_nsec - rdelay,
          ts |-> rdst.tv_sec * NS_PER_SEC + rdst.tv_nsec,
          reads |-> <<clkid, sysclk>>]

read_phc(clkid, sysclk, rdelay, offset, ts, rsrc, rdst) ==
    IF clkid = CLOCK_INVALID
    THEN [ret |-> 0, offset |-> offset, ts |-> ts, reads |-> <<>>]
    ELSE IF rsrc.ret # 0
    THEN [ret |-> 0, offset |-> offset, ts |-> ts, reads |-> <<clkid>>]
    ELSE IF rdst.ret # 0
    THEN [ret |-> 0, offset |-> offset, ts |-> ts, reads |-> <<clkid, sysclk>>]
    ELSE [ret |-> 1,
          offset |-> rdst.tv_sec * NS_PER_SEC - rsrc.tv_sec * NS_PER_SEC
                     + rdst.tv_nsec - rsrc.tv_nsec - rdelay,
          ts |-> rdst.tv_sec * NS_PER_SEC + rdst.tv_nsec,
          reads |-> <<clkid, sysclk>>]

(***************************************************************************)
(* read_pps(), lines 169-189.  fetch is the outcome of ioctl(PPS_FETCH):   *)
(* its return value ret (non-zero on a time-out or an error) and the       *)
(* assert timestamp [sec, nsec].                                           *)
(***************************************************************************)
(* a faulty wrap: half a second itself is wrapped too *)
pps_wrap_at_half(ts) ==
    LET off == ts % NS_PER_SEC
    IN  IF off >= NS_PER_SEC \div 2 THEN off - NS_PER_SEC ELSE off

pps_wrap(ts) ==
    LET off == ts % NS_PER_SEC
    IN  IF off > NS_PER_SEC \div 2 THEN off - NS_PER_SEC ELSE off

read_pps(fd, offset, ts, fetch) ==
    IF fetch.ret # 0
    THEN [ret |-> 0, offset |-> offset, ts |-> ts]
    ELSE LET t == fetch.sec * NS_PER_SEC + fetch.nsec
         IN  [ret |-> 1, offset |-> pps_wrap(t), ts |-> t]

(***************************************************************************)
(* do_servo(), lines 123-167, one operator per case of the switch.  Each   *)
(* gives the servo after the case and the commands issued in it.           *)
(***************************************************************************)
(* a faulty SAMPLE_0: the case is taken again when the adjustment failed *)
servo_SAMPLE_0_retries(srv, dst, ok) ==
    [srv |-> [srv EXCEPT !.state = IF ok THEN SAMPLE_1 ELSE SAMPLE_0],
     cmds |-> <<clock_ppb(dst, Dbl(0), ok)>>]

servo_SAMPLE_0(srv, dst, ok) ==
    [srv |-> [srv EXCEPT !.state = SAMPLE_1],
     cmds |-> <<clock_ppb(dst, Dbl(0), ok)>>]

(* a faulty SAMPLE_1: the servo skips SAMPLE_2 *)
servo_SAMPLE_1_skips(srv) ==
    [srv |-> [srv EXCEPT !.state = SAMPLE_3], cmds |-> <<>>]

servo_SAMPLE_1(srv) ==
    [srv |-> [srv EXCEPT !.state = SAMPLE_2], cmds |-> <<>>]

(* a faulty SAMPLE_2: the nominal second is not subtracted *)
servo_SAMPLE_2_raw_delta(srv, dst, ts, ok) ==
    LET delta == ts - srv.last_ts
        offset == delta
    IN  [srv |-> [srv EXCEPT !.drift = Dbl(offset), !.state = SAMPLE_3],
         cmds |-> <<clock_ppb(dst, Dbl(-offset), ok)>>]

servo_SAMPLE_2(srv, dst, ts, ok) ==
    LET delta == ts - srv.last_ts
        offset == delta - NS_PER_SEC
    IN  [srv |-> [srv EXCEPT !.drift = Dbl(offset), !.state = SAMPLE_3],
         cmds |-> <<clock_ppb(dst, Dbl(-offset), ok)>>]

(* a faulty SAMPLE_3: the step is followed by a frequency command *)
servo_SAMPLE_3_also_freq(srv, dst, offset, ok) ==
    [srv |-> [srv EXCEPT !.state = SAMPLE_N],
     cmds |-> <<clock_step(dst, -offset, ok), clock_ppb(dst, Dbl(-offset), ok)>>]

servo_SAMPLE_3(srv, dst, offset, ok) ==
    [srv |-> [srv EXCEPT !.state = SAMPLE_N],
     cmds |-> <<clock_step(dst, -offset, ok)>>]

(* ppb = kp * offset + srv->drift + ki_term, line 154 *)
pi_ppb(drift, offset, kp, ki) ==
    DblAdd(DblAdd(DblMul(kp, offset), drift), DblMul(ki, offset))

(* a faulty SAMPLE_N: the integral is accumulated while the output is clamped *)
servo_SAMPLE_N_windup(srv, dst, offset, kp, ki, ok) ==
    LET ki_term == DblMul(ki, offset)
        ppb == pi_ppb(srv.drift, offset, kp, ki)
        acc == [srv EXCEPT !.drift = DblAdd(srv.drift, ki_term)]
    IN  IF DblLt(ppb, Dbl(min_ppb))
        THEN [srv |-> acc, cmds |-> <<clock_ppb(dst, DblNeg(Dbl(min_ppb)), ok)>>]
        ELSE IF DblLt(Dbl(max_ppb), ppb)
        THEN [srv |-> acc, cmds |-> <<clock_ppb(dst, DblNeg(Dbl(max_ppb)), ok)>>]
        ELSE [srv |-> acc, cmds |-> <<clock_ppb(dst, DblNeg(ppb), ok)>>]

(* a faulty SAMPLE_N: a correction equal to a limit counts as out of range *)
servo_SAMPLE_N_strict(srv, dst, offset, kp, ki, ok) ==
    LET ki_term == DblMul(ki, offset)
        ppb == pi_ppb(srv.drift, offset, kp, ki)
    IN  IF ~DblLt(Dbl(min_ppb), ppb)
        THEN [srv |-> srv, cmds |-> <<clock_ppb(dst, DblNeg(Dbl(min_ppb)), ok)>>]
        ELSE IF ~DblLt(ppb, Dbl(max_ppb))
        THEN [srv |-> srv, cmds |-> <<clock_ppb(dst, DblNeg(Dbl(max_ppb)), ok)>>]
        ELSE [srv |-> [srv EXCEPT !.drift = DblAdd(srv.drift, ki_term)],
              cmds |-> <<clock_ppb(dst, DblNeg(ppb), ok)>>]

servo_SAMPLE_N(srv, dst, offset, kp, ki, ok) ==
    LET ki_term == DblMul(ki, offset)
        ppb == pi_ppb(srv.drift, offset, kp, ki)
    IN  IF DblLt(ppb, Dbl(min_ppb))
        THEN [srv |-> srv, cmds |-> <<clock_ppb(dst, DblNeg(Dbl(min_ppb)), ok)>>]
        ELSE IF DblLt(Dbl(max_ppb), ppb)
        THEN [srv |-> srv, cmds |-> <<clock_ppb(dst, DblNeg(Dbl(max_ppb)), ok)>>]
        ELSE [srv |-> [srv EXCEPT !.drift = DblAdd(srv.drift, ki_term)],
              cmds |-> <<clock_ppb(dst, DblNeg(ppb), ok)>>]

(* a faulty do_servo(): SAMPLE_1 returns before last_ts is stored *)
do_servo_early_return(srv, src, dst, offset, ts, kp, ki, ok) ==
    LET r == CASE srv.state = SAMPLE_0 -> servo_SAMPLE_0(srv, dst, ok)
               [] srv.state = SAMPLE_1 -> servo_SAMPLE_1(srv)
               [] srv.state = SAMPLE_2 -> servo_SAMPLE_2(srv, dst, ts, ok)
               [] srv.state = SAMPLE_3 -> servo_SAMPLE_3(srv, dst, offset, ok)
               [] srv.state = SAMPLE_N -> servo_SAMPLE_N(srv, dst, offset, kp, ki, ok)
    IN  [srv |-> IF srv.state = SAMPLE_1 THEN r.srv
                 ELSE [r.srv EXCEPT !.last_ts = ts],
         cmds |-> r.cmds]

do_servo(srv, src, dst, offset, ts, kp, ki, ok) ==
    LET r == CASE srv.state = SAMPLE_0 -> servo_SAMPLE_0(srv, dst, ok)
               [] srv.state = SAMPLE_1 -> servo_SAMPLE_1(srv)
               [] srv.state = SAMPLE_2 -> servo_SAMPLE_2(srv, dst, ts, ok)
               [] srv.state = SAMPLE_3 -> servo_SAMPLE_3(srv, dst, offset, ok)
               [] srv.state = SAMPLE_N -> servo_SAMPLE_N(srv, dst, offset, kp, ki, ok)
    IN  [srv |-> [r.srv EXCEPT !.last_ts = ts], cmds |-> r.cmds]

(***************************************************************************)
(* Inputs.  The outcomes of getopt(), open(), ioctl(PPS_FETCH),            *)
(* clock_gettime() and clock_adjtime() are chosen from these sets.         *)
(***************************************************************************)
NULL == "NULL"
PpsDev == "pps_dev"

(***************************************************************************)
(* Command lines: for -c and -s whether the option is given and whether    *)
(* clock_open() succeeds, for -d the device, for -r the delay, for -P and  *)
(* -I the gains in tenths.                                                 *)
(***************************************************************************)
Cmd(c, s, d, r, p, i) == [c |-> c, s |-> s, d |-> d, r |-> r, kp |-> p, ki |-> i]

CommandLines ==
    { Cmd("absent", "ok",     PpsDev, 0,      KP, KI),
      Cmd("ok",     "ok",     PpsDev, 100000, 10, 0),
      Cmd("absent", "absent", PpsDev, 0,      KP, KI),
      Cmd("absent", "fail",   PpsDev, 0,      KP, KI),
      Cmd("absent", "ok",     NULL,   0,      KP, KI),
      Cmd("ok",     "ok",     NULL,   100000, 10, 0),
      Cmd("fail",   "ok",     PpsDev, 0,      KP, KI),
      Cmd("absent", "fail",   NULL,   0,      KP, KI),
      Cmd("absent", "absent", NULL,   0,      KP, KI) }

(* PPS assert edges and clock readings the kernel may report *)
Edge(sec, nsec) == [ret |-> 0, sec |-> sec, nsec |-> nsec]
PpsEdges == { Edge(0, 0), Edge(1, 0), Edge(1, 100007), Edge(1, 512000),
              Edge(1, 500000000), Edge(1, 999488000) }
PpsFailed == [ret |-> -1, sec |-> 0, nsec |-> 0]

Time(sec, nsec) == [ret |-> 0, tv_sec |-> sec, tv_nsec |-> nsec]
SrcTimes == { Time(1, 0) }
DstTimes == { Time(0, 0), Time(1, 0), Time(1, 100000) }
ClockFailed == [ret |-> -1, tv_sec |-> 0, tv_nsec |-> 0]

(* descriptors open() may return for the PPS device: failure, 0, or above 0 *)
OpenResults == {-1, 0, 3}

(* the servo is followed for at most MaxCalls calls *)
MaxCalls == 6

VARIABLES pc, status, kp, ki, device, src, dst, fd, rdelay,
          pps_ts, phc_ts, pps_offset, phc_offset, servo, calls, set_log, it,
          probe, open_errs, tick

vars == <<pc, status, kp, ki, device, src, dst, fd, rdelay,
          pps_ts, phc_ts, pps_offset, phc_offset, servo, calls, set_log, it,
          probe, open_errs, tick>>

config == <<kp, ki, device, src, dst, fd, rdelay>>
samples == <<pps_ts, phc_ts, pps_offset, phc_offset>>

(***************************************************************************)
(* What the latest pass of the loop did: whether read_pps() and read_phc() *)
(* ran and what they returned, whether the pass slept, the clocks read,    *)
(* whether do_servo() was called, with which sample, and the commands it   *)
(* issued; env holds the return values of the kernel calls of the pass.    *)
(* NoIter before the first pass.                                           *)
(***************************************************************************)
NoIter == [pps |-> "none", phc |-> "none", slept |-> FALSE, reads |-> <<>>,
           called |-> FALSE, offset |-> 0, ts |-> 0, cmds |-> <<>>,
           env |-> [fetch |-> 0, rsrc |-> 0, rdst |-> 0]]

(* the function applied last by the specification of the pure functions *)
NoProbe == [f |-> "none", arg |-> <<>>, out |-> <<>>]

(***************************************************************************)
(* main(), lines 207-215 and the static servo of line 121.  pc is the      *)
(* place main() has reached; status is its return value once pc = "exit".  *)
(* open_errs holds the options ("c", "s", "d") whose device open() failed  *)
(* to open.  tick is the parity of the number of passes of the loop, kept  *)
(* where the passes are counted (SpecLive).                                *)
(***************************************************************************)
Init ==
    /\ pc = "getopt"
    /\ status = 0
    /\ kp = KP /\ ki = KI
    /\ device = NULL
    /\ src = CLOCK_INVALID /\ dst = CLOCK_REALTIME
    /\ fd = 0 /\ rdelay = 0
    /\ pps_ts \in Indeterminate /\ phc_ts \in Indeterminate
    /\ pps_offset \in Indeterminate /\ phc_offset \in Indeterminate
    /\ servo = [last_ts |-> 0, drift |-> Dbl(0), state |-> SAMPLE_0]
    /\ calls = 0
    /\ set_log = <<>>
    /\ it = NoIter
    /\ probe = NoProbe
    /\ open_errs = {}
    /\ tick = 0

(* clock_open(), lines 44-52 *)
clock_open(dev, opened) == IF opened THEN dev ELSE CLOCK_INVALID

(***************************************************************************)
(* The option loop, lines 219-246.  Each option is given at most once.     *)
(***************************************************************************)
ParseArgs ==
    /\ pc = "getopt"
    /\ \E a \in CommandLines :
          /\ dst' = IF a.c = "absent" THEN dst ELSE clock_open(DstPhc, a.c = "ok")
          /\ src' = IF a.s = "absent" THEN src ELSE clock_open(SrcPhc, a.s = "ok")
          /\ device' = a.d
          /\ rdelay' = a.r
          /\ kp' = a.kp /\ ki' = a.ki
          /\ open_errs' = {o \in {"c", "s"} : a[o] = "fail"}
    /\ pc' = "check"
    /\ UNCHANGED <<status, fd, samples, servo, calls, set_log, it, probe, tick>>

(* -h: usage, return 0;  an unknown option: usage, return -1 *)
ParseArgsExit ==
    /\ pc = "getopt"
    /\ \E st \in {0, -1} : status' = st
    /\ pc' = "exit"
    /\ UNCHANGED <<config, samples, servo, calls, set_log, it, probe, open_errs,
                   tick>>

(* a faulty validation: the destination handle is not looked at *)
CheckConfig_ignores_dst ==
    /\ pc = "check"
    /\ IF ~(device # NULL \/ src # CLOCK_INVALID)
       THEN pc' = "exit" /\ status' = -1
       ELSE pc' = "open_pps" /\ UNCHANGED status
    /\ UNCHANGED <<config, samples, servo, calls, set_log, it, probe, open_errs,
                   tick>>

(* lines 248-251 *)
CheckConfig ==
    /\ pc = "check"
    /\ IF ~(device # NULL \/ src # CLOCK_INVALID) \/ dst = CLOCK_INVALID
       THEN pc' = "exit" /\ status' = -1
       ELSE pc' = "open_pps" /\ UNCHANGED status
    /\ UNCHANGED <<config, samples, servo, calls, set_log, it, probe, open_errs,
                   tick>>

(***************************************************************************)
(* lines 252-258.  open() returns the lowest free descriptor: it can be 0  *)
(* only if no clock device was opened before, by -c or -s.                 *)
(***************************************************************************)
PpsOpenResults ==
    IF src = CLOCK_INVALID /\ dst = CLOCK_REALTIME
    THEN OpenResults
    ELSE OpenResults \ {0}

OpenPps ==
    /\ pc = "open_pps"
    /\ IF device # NULL
       THEN \E res \in PpsOpenResults :
               /\ fd' = res
               /\ open_errs' = IF res < 0 THEN open_errs \cup {"d"} ELSE open_errs
               /\ IF res < 0 THEN pc' = "exit" /\ status' = -1
                             ELSE pc' = "set_time" /\ UNCHANGED status
       ELSE pc' = "set_time" /\ UNCHANGED <<fd, status, open_errs>>
    /\ UNCHANGED <<kp, ki, device, src, dst, rdelay, samples, servo, calls,
                   set_log, it, probe, tick>>

(***************************************************************************)
(* lines 259-265.  When clock_gettime() fails, now keeps its uninitialised *)
(* contents and clock_settime() is called with them all the same: any      *)
(* time, the master's by chance or another.                                *)
(***************************************************************************)
IndeterminateTimes == SrcTimes \cup {Time(0, 0)}

SetTime ==
    /\ pc = "set_time"
    /\ IF src # CLOCK_INVALID
       THEN \E got \in BOOLEAN, ok \in BOOLEAN :
            \E now \in IF got THEN SrcTimes ELSE IndeterminateTimes :
               set_log' = Append(set_log,
                   [clk |-> dst, from |-> src, read_ok |-> got, time |-> now, ok |-> ok])
       ELSE UNCHANGED set_log
    /\ pc' = "loop"
    /\ UNCHANGED <<status, config, samples, servo, calls, it, probe, open_errs,
                   tick>>

(***************************************************************************)
(* One pass of the while loop, lines 266-282.  fetch, rsrc and rdst are    *)
(* what the kernel answers in this pass, ok whether clock_adjtime()        *)
(* succeeds.  The result holds the new values of the variables the pass    *)
(* may write and the record of what it did.                                *)
(***************************************************************************)
(* a faulty choice: the PPS offset goes with the time stamp of the direct read *)
servo_sample_mixed(pps_o, pps_t, phc_o, phc_t) ==
    IF fd > 0 THEN [offset |-> pps_o, ts |-> phc_t]
              ELSE [offset |-> phc_o, ts |-> phc_t]

(* the sample handed to do_servo(), lines 278-281 *)
servo_sample(pps_o, pps_t, phc_o, phc_t) ==
    IF fd > 0 THEN [offset |-> pps_o, ts |-> pps_t]
              ELSE [offset |-> phc_o, ts |-> phc_t]

loop_pass(fetch, rsrc, rdst, ok) ==
    LET P == read_pps(fd, pps_offset, pps_ts, fetch)
        H == read_phc(src, dst, rdelay, phc_offset, phc_ts, rsrc, rdst)
        base == [NoIter EXCEPT !.pps = IF fd > 0 THEN "ok" ELSE "none",
                               !.slept = ~(fd > 0)]
        po == IF fd > 0 THEN P.offset ELSE pps_offset
        pt == IF fd > 0 THEN P.ts ELSE pps_ts
    IN  IF fd > 0 /\ P.ret = 0
        THEN [pps_offset |-> P.offset, pps_ts |-> P.ts,
              phc_offset |-> phc_offset, phc_ts |-> phc_ts,
              servo |-> servo,
              it |-> [NoIter EXCEPT !.pps = "fail"]]
        ELSE IF H.ret = 0
        THEN [pps_offset |-> po, pps_ts |-> pt,
              phc_offset |-> H.offset, phc_ts |-> H.ts,
              servo |-> servo,
              it |-> [base EXCEPT !.phc = "nosample", !.reads = H.reads]]
        ELSE LET smp == servo_sample(po, pt, H.offset, H.ts)
                 offset == smp.offset
                 ts == smp.ts
                 S == do_servo(servo, src, dst, offset, ts, kp, ki, ok)
             IN  [pps_offset |-> po, pps_ts |-> pt,
                  phc_offset |-> H.offset, phc_ts |-> H.ts,
                  servo |-> S.srv,
                  it |-> [base EXCEPT !.phc = "ok", !.reads = H.reads,
                                      !.called = TRUE, !.offset = offset,
                                      !.ts = ts, !.cmds = S.cmds]]

TsOfEdge(e) == e.sec * NS_PER_SEC + e.nsec
TsOfTime(t) == t.tv_sec * NS_PER_SEC + t.tv_nsec

(***************************************************************************)
(* The kernel's answers, for the calls the pass makes.  The time stamps    *)
(* that reach the servo do not run backwards: a PPS edge (PPS mode) or a   *)
(* reading of the destination clock (direct mode) is not earlier than the  *)
(* one the servo saw last.  For a call the pass does not make the answer   *)
(* is NoFetch or NoRead, which nothing looks at.                           *)
(***************************************************************************)
NoFetch == Edge(0, 0)
NoRead == Time(0, 0)

(* the reading of the destination clock in PPS mode, where the servo does *)
(* not use it                                                              *)
PpsModeDstTime == Time(1, 100000)

Fetches ==
    IF fd > 0
    THEN {PpsFailed} \cup {e \in PpsEdges : TsOfEdge(e) >= servo.last_ts}
    ELSE {NoFetch}

SrcReads(fetch) ==
    IF fetch.ret # 0 \/ src = CLOCK_INVALID
    THEN {NoRead}
    ELSE {ClockFailed} \cup SrcTimes

DstReads(fetch, rsrc) ==
    IF fetch.ret # 0 \/ src = CLOCK_INVALID \/ rsrc.ret # 0
    THEN {NoRead}
    ELSE {ClockFailed} \cup
         {t \in DstTimes : IF fd > 0 THEN t = PpsModeDstTime
                                     ELSE TsOfTime(t) >= servo.last_ts}

Adjusts(fetch, rsrc, rdst) ==
    IF fetch.ret # 0 \/ src = CLOCK_INVALID
       \/ rsrc.ret # 0 \/ rdst.ret # 0 \/ servo.state = SAMPLE_1
    THEN {TRUE}
    ELSE BOOLEAN

(* a faulty loop: a failed PPS fetch leaves the loop *)
MainLoop_breaks ==
    /\ pc = "loop"
    /\ \E fetch \in Fetches : \E rsrc \in SrcReads(fetch) :
       \E rdst \in DstReads(fetch, rsrc) : \E ok \in Adjusts(fetch, rsrc, rdst) :
          LET R == loop_pass(fetch, rsrc, rdst, ok)
          IN  /\ R.it.called => calls < MaxCalls
              /\ pps_offset' = R.pps_offset
              /\ pps_ts' = R.pps_ts
              /\ phc_offset' = R.phc_offset
              /\ phc_ts' = R.phc_ts
              /\ servo' = R.servo
              /\ it' = [R.it EXCEPT !.env = [fetch |-> fetch.ret,
                                             rsrc |-> rsrc.ret,
                                             rdst |-> rdst.ret]]
              /\ calls' = IF R.it.called THEN calls + 1 ELSE calls
              /\ pc' = IF R.it.pps = "fail" THEN "exit" ELSE pc
    /\ UNCHANGED <<status, config, set_log, probe, open_errs>>

(* one pass of the loop, lines 266-282 *)
MainLoop ==
    /\ pc = "loop"
    /\ \E fetch \in Fetches : \E rsrc \in SrcReads(fetch) :
       \E rdst \in DstReads(fetch, rsrc) : \E ok \in Adjusts(fetch, rsrc, rdst) :
          LET R == loop_pass(fetch, rsrc, rdst, ok)
          IN  /\ R.it.called => calls < MaxCalls
              /\ pps_offset' = R.pps_offset
              /\ pps_ts' = R.pps_ts
              /\ phc_offset' = R.phc_offset
              /\ phc_ts' = R.phc_ts
              /\ servo' = R.servo
              /\ it' = [R.it EXCEPT !.env = [fetch |-> fetch.ret,
                                             rsrc |-> rsrc.ret,
                                             rdst |-> rdst.ret]]
              /\ calls' = IF R.it.called THEN calls + 1 ELSE calls
    /\ UNCHANGED <<pc, status, config, set_log, probe, open_errs>>

(* a pass of the loop, not counted *)
Pass == MainLoop /\ UNCHANGED tick

Next ==
    \/ ParseArgs
    \/ ParseArgsExit
    \/ CheckConfig
    \/ OpenPps
    \/ SetTime
    \/ Pass

Spec == Init /\ [][Next]_vars

(***************************************************************************)
(* The same program under the assumption that a process which can run      *)
(* does run: every call a pass makes returns (the PPS fetch has a time-out *)
(* of 10 s, line 176, usleep() and clock_gettime() do not block), so a     *)
(* pass of the loop that can be taken is taken.                            *)
(***************************************************************************)
CountedPass == MainLoop /\ tick' = 1 - tick

NextLive ==
    \/ ParseArgs
    \/ ParseArgsExit
    \/ CheckConfig
    \/ OpenPps
    \/ SetTime
    \/ CountedPass

SpecLive == Init /\ [][NextLive]_vars /\ WF_vars(CountedPass)

(***************************************************************************)
(* The pure functions on their own: clock_step(), read_pps() and           *)
(* read_phc() applied to arguments and kernel answers drawn from wider     *)
(* sets than the loop above meets.  probe holds the function applied       *)
(* last, its arguments and its result.                                     *)
(***************************************************************************)
StepInputs ==
    { k * 250000000 + e : k \in -8..8, e \in {-1, 0, 1} } \ {-2000000001}

FnEdges == [ret : {0}, sec : {0, 1},
            nsec : {0, 1, 400000000, 499999999, 500000000, 500000001,
                    900000000, 999999999}]

FnTimes == [ret : {0}, tv_sec : {0, 1}, tv_nsec : {0, 1, 999999999}]
FnRdelays == {-250, 0, 250}
FnStored == {<<0, 0>>, <<-7, 5>>}

ProbeClockStep ==
    /\ \E ns \in StepInputs, ok \in BOOLEAN :
          probe' = [f |-> "clock_step", arg |-> [ns |-> ns],
                    out |-> clock_step(dst, ns, ok)]
    /\ UNCHANGED <<pc, status, config, samples, servo, calls, set_log, it,
                   open_errs, tick>>

ProbeReadPps ==
    /\ \E fetch \in FnEdges \cup {PpsFailed}, old \in FnStored :
          probe' = [f |-> "read_pps",
                    arg |-> [fetch |-> fetch, offset |-> old[1], ts |-> old[2]],
                    out |-> read_pps(3, old[1], old[2], fetch)]
    /\ UNCHANGED <<pc, status, config, samples, servo, calls, set_log, it,
                   open_errs, tick>>

ProbeReadPhc ==
    /\ \E clkid \in {CLOCK_INVALID, SrcPhc}, sysclk \in {CLOCK_REALTIME, DstPhc},
          rd \in FnRdelays, old \in FnStored,
          rsrc \in FnTimes \cup {ClockFailed}, rdst \in FnTimes \cup {ClockFailed} :
          probe' = [f |-> "read_phc",
                    arg |-> [clkid |-> clkid, sysclk |-> sysclk, rdelay |-> rd,
                             offset |-> old[1], ts |-> old[2],
                             rsrc |-> rsrc, rdst |-> rdst],
                    out |-> read_phc(clkid, sysclk, rd, old[1], old[2], rsrc, rdst)]
    /\ UNCHANGED <<pc, status, config, samples, servo, calls, set_log, it,
                   open_errs, tick>>

NextFn ==
    \/ ProbeClockStep
    \/ ProbeReadPps
    \/ ProbeReadPhc

SpecFn == Init /\ [][NextFn]_vars

(***************************************************************************)
(*                              Properties                                 *)
(***************************************************************************)

(* a pass of the loop called do_servo() in this step *)
ServoCalled == calls' = calls + 1

(* the only command of pass i is a frequency command of v ppb to dst *)
FreqCmd(i, v) ==
    /\ Len(i.cmds) = 1
    /\ i.cmds[1].op = "freq"
    /\ i.cmds[1].clk = dst
    /\ i.cmds[1].ppb = v

(* kp*offset + drift + ki*offset, as the properties state it *)
Correction(drift, offset) ==
    DblAdd(DblMul(kp, offset), DblAdd(drift, DblMul(ki, offset)))

Below(x) == DblLt(x, Dbl(min_ppb))
Above(x) == DblLt(Dbl(max_ppb), x)

(***************************************************************************)
(* C1.  The servo state is SAMPLE_0, SAMPLE_1, SAMPLE_2, SAMPLE_3,         *)
(* SAMPLE_N in that order, one state further with each call of do_servo()  *)
(* until SAMPLE_N and SAMPLE_N ever after: after n calls the state is the  *)
(* n-th of the sequence whatever the offsets and time stamps were, and it  *)
(* changes in no step that is not a call.                                  *)
(***************************************************************************)
C1_StateSequence ==
    servo.state = (IF calls < SAMPLE_N THEN calls ELSE SAMPLE_N)

C1_Witness == servo.state = SAMPLE_N /\ calls > SAMPLE_N + 1

(***************************************************************************)
(* C2.  A call in SAMPLE_N whose correction kp*offset + drift + ki*offset  *)
(* is below min_ppb or above max_ppb leaves drift as it was and commands   *)
(* -min_ppb, respectively -max_ppb; a call in SAMPLE_N that changes drift  *)
(* had a correction within the limits.                                     *)
(***************************************************************************)
C2_ClampFreezesDrift ==
    [][ (ServoCalled /\ servo.state = SAMPLE_N) =>
          LET ppb == Correction(servo.drift, it'.offset)
          IN  /\ Below(ppb) => /\ servo'.drift = servo.drift
                               /\ FreqCmd(it', Dbl(-min_ppb))
              /\ Above(ppb) => /\ servo'.drift = servo.drift
                               /\ FreqCmd(it', Dbl(-max_ppb))
              /\ servo'.drift # servo.drift => ~Below(ppb) /\ ~Above(ppb) ]_vars

(* the 5th call, in SAMPLE_N with drift 0 and the default gains, got the   *)
(* offset 500000000: the correction was cut to max_ppb, drift is still 0   *)
C2_Witness ==
    /\ calls = 5 /\ it.called /\ ki = KI /\ kp = KP
    /\ it.offset = 500000000
    /\ servo.drift = Dbl(0)
    /\ FreqCmd(it, Dbl(-max_ppb))

(***************************************************************************)
(* C3.  A call in SAMPLE_N whose correction ppb = kp*offset + drift +      *)
(* ki*offset satisfies min_ppb <= ppb <= max_ppb adds exactly ki*offset to *)
(* drift and commands the frequency -ppb to the destination clock.         *)
(***************************************************************************)
C3_UnclampedAccumulates ==
    [][ (ServoCalled /\ servo.state = SAMPLE_N) =>
          LET ppb == Correction(servo.drift, it'.offset)
          IN  (~Below(ppb) /\ ~Above(ppb)) =>
                 /\ servo'.drift = DblAdd(servo.drift, DblMul(ki, it'.offset))
                 /\ FreqCmd(it', DblNeg(ppb)) ]_vars

(* the 5th call, with drift 0 and the default gains, got the offset 512000 *)
(* and so the correction max_ppb itself: drift became 0.3 * 512000         *)
C3_Witness ==
    /\ calls = 5 /\ it.called /\ ki = KI /\ kp = KP
    /\ it.offset = 512000
    /\ servo.drift = Dbl(153600)
    /\ FreqCmd(it, Dbl(-max_ppb))

(***************************************************************************)
(* C4.  No frequency command of any call of do_servo(), the calls before   *)
(* SAMPLE_N included, is above 512000 ppb or below -512000 ppb.            *)
(***************************************************************************)
C4_FreqWithinLimits ==
    \A k \in 1..Len(it.cmds) :
        it.cmds[k].op = "freq" =>
            ~Below(it.cmds[k].ppb) /\ ~Above(it.cmds[k].ppb)

(***************************************************************************)
(* C5.  A call in SAMPLE_2 with time stamp ts sets drift to                *)
(* (ts - last_ts) - NS_PER_SEC, last_ts being the time stamp of the call   *)
(* before, and commands the negated value as frequency, whatever offset    *)
(* the caller passed; last_ts = 0 and ts = 1500000000 give the drift       *)
(* 500000000.                                                              *)
(***************************************************************************)
C5_MeasureInterval ==
    [][ (ServoCalled /\ servo.state = SAMPLE_2) =>
          LET measured == (it'.ts - servo.last_ts) - NS_PER_SEC
          IN  /\ servo'.drift = Dbl(measured)
              /\ FreqCmd(it', Dbl(-measured))
              /\ (servo.last_ts = 0 /\ it'.ts = 1500000000)
                     => servo'.drift = Dbl(500000000) ]_vars

C5_Witness ==
    /\ calls = 3 /\ it.called /\ servo.state = SAMPLE_3
    /\ it.ts = 1500000000
    /\ servo.drift = Dbl(500000000)
    /\ FreqCmd(it, Dbl(-500000000))

(***************************************************************************)
(* C6.  For a PPS edge at sec seconds and nsec nanoseconds read_pps()      *)
(* returns the time stamp sec * NS_PER_SEC + nsec and an offset in         *)
(* (-500000000, 500000000] that differs from the time stamp by a whole     *)
(* number of seconds: nsec itself up to and including 500000000, and       *)
(* nsec - NS_PER_SEC above it (400000000 and 500000000 are kept,           *)
(* 900000000 becomes -100000000).                                          *)
(***************************************************************************)
C6_PpsOffsetWrap ==
    (probe.f = "read_pps" /\ probe.arg.fetch.ret = 0) =>
        LET r == probe.arg.fetch.nsec
            off == probe.out.offset
            t == probe.out.ts
        IN  /\ probe.out.ret = 1
            /\ t = probe.arg.fetch.sec * NS_PER_SEC + r
            /\ -500000000 < off /\ off <= 500000000
            /\ (t - off) % NS_PER_SEC = 0
            /\ r <= 500000000 => off = r
            /\ r > 500000000 => off = r - NS_PER_SEC
            /\ r = 400000000 => off = 400000000
            /\ r = 900000000 => off = -100000000

C6_Witness ==
    /\ probe.f = "read_pps"
    /\ probe.arg.fetch = Edge(1, 900000000)
    /\ probe.out.ret = 1
    /\ probe.out.offset = -100000000
    /\ probe.out.ts = 1900000000

(***************************************************************************)
(* C7.  For every step ns the timeval clock_step() hands to                *)
(* clock_adjtime() has 0 <= tv_usec < 1000000000 and                       *)
(* tv_sec * 1000000000 + tv_usec = ns.                                     *)
(***************************************************************************)
C7_StepNormalised ==
    probe.f = "clock_step" =>
        /\ 0 <= probe.out.tv_usec
        /\ probe.out.tv_usec < 1000000000
        /\ probe.out.tv_sec * 1000000000 + probe.out.tv_usec = probe.arg.ns

C7_Witness ==
    /\ probe.f = "clock_step"
    /\ probe.arg.ns = -1500000000
    /\ probe.out.tv_sec = -2
    /\ probe.out.tv_usec = 500000000

(***************************************************************************)
(* C8.  With a valid source handle and two successful clock reads          *)
(* read_phc() returns 1 and stores offset = (dst time - src time) - rdelay *)
(* and ts = dst time; with an invalid source handle it returns 0, reads no *)
(* clock and leaves the caller's offset and ts as they were.               *)
(***************************************************************************)
C8_DirectRead ==
    probe.f = "read_phc" =>
        LET a == probe.arg
            o == probe.out
        IN  /\ (a.clkid # CLOCK_INVALID /\ a.rsrc.ret = 0 /\ a.rdst.ret = 0) =>
                  /\ o.ret = 1
                  /\ o.offset = (TsOfTime(a.rdst) - TsOfTime(a.rsrc)) - a.rdelay
                  /\ o.ts = TsOfTime(a.rdst)
            /\ a.clkid = CLOCK_INVALID =>
                  /\ o.ret = 0
                  /\ o.reads = <<>>
                  /\ o.offset = a.offset
                  /\ o.ts = a.ts

C8_Witness ==
    /\ probe.f = "read_phc"
    /\ probe.arg.clkid = SrcPhc
    /\ probe.arg.rdelay = 250
    /\ probe.arg.rsrc = Time(0, 1)
    /\ probe.arg.rdst = Time(1, 0)
    /\ probe.out.ret = 1
    /\ probe.out.offset = 999999749
    /\ probe.out.ts = 1000000000

(***************************************************************************)
(* C9.  A pass of the loop in which ioctl(PPS_FETCH) or a clock_gettime()  *)
(* of the source or the destination clock fails does not call do_servo(),  *)
(* leaves the servo's state, drift and last_ts as they were, issues no     *)
(* frequency or phase command, and leaves the program in the loop.         *)
(***************************************************************************)
PassFailed(i) == i.env.fetch # 0 \/ i.env.rsrc # 0 \/ i.env.rdst # 0

C9_FailedPassSkipped ==
    [][ (pc = "loop" /\ PassFailed(it')) =>
            /\ servo' = servo
            /\ calls' = calls
            /\ ~it'.called
            /\ it'.cmds = <<>>
            /\ pc' = "loop" ]_vars

(* after three servo calls a pass got its PPS edge and then failed to read *)
(* the destination clock                                                   *)
C9_Witness ==
    /\ pc = "loop" /\ calls = 3 /\ servo.state = SAMPLE_3
    /\ it.pps = "ok"
    /\ it.env.rdst # 0
    /\ it.cmds = <<>>

(***************************************************************************)
(* C10.  No pass of the loop executes both samplers: a pass that ran       *)
(* read_pps() reads neither clock through read_phc().                      *)
(***************************************************************************)
C10_OneSamplerPerPass ==
    ~(it.pps # "none" /\ it.reads # <<>>)

(***************************************************************************)
(* C11.  A device that fails to open at startup, whichever of the           *)
(* destination clock (-c), the master clock (-s) and the PPS device (-d)   *)
(* it is, ends the run: the program does not go on to set the time or to   *)
(* enter the loop, and it exits with a non-zero status.                    *)
(***************************************************************************)
C11_OpenFailureFatal ==
    open_errs # {} =>
        /\ pc \in {"check", "open_pps", "exit"}
        /\ pc = "exit" => status # 0

(***************************************************************************)
(* C12.  With an invalid destination handle, or with neither a PPS device  *)
(* nor a valid master clock, the program goes from the validation to the   *)
(* exit with status -1: it never opens the PPS device, sets the time or    *)
(* enters the loop, the servo is never called and no clock is set,         *)
(* adjusted or stepped.                                                    *)
(***************************************************************************)
BadConfig == dst = CLOCK_INVALID \/ (device = NULL /\ src = CLOCK_INVALID)

Untouched ==
    /\ calls = 0
    /\ servo = [last_ts |-> 0, drift |-> Dbl(0), state |-> SAMPLE_0]
    /\ set_log = <<>>
    /\ it = NoIter

C12_BadConfigExits ==
    /\ []((BadConfig /\ pc # "getopt") => (pc \in {"check", "exit"} /\ Untouched))
    /\ [][ (pc = "check" /\ BadConfig) => (pc' = "exit" /\ status' = -1) ]_vars

(* the run of a command line whose -c device did not open, after its exit *)
C12_Witness ==
    /\ pc = "exit" /\ status = -1
    /\ dst = CLOCK_INVALID
    /\ device # NULL

(***************************************************************************)
(* C13.  No clock is read, set, adjusted or stepped through an invalid     *)
(* handle: not by the time setting at startup, not by read_phc(), not by   *)
(* the servo's commands.                                                   *)
(***************************************************************************)
C13_NoInvalidHandle ==
    /\ \A k \in 1..Len(set_log) :
          set_log[k].clk # CLOCK_INVALID /\ set_log[k].from # CLOCK_INVALID
    /\ \A k \in 1..Len(it.reads) : it.reads[k] # CLOCK_INVALID
    /\ \A k \in 1..Len(it.cmds) : it.cmds[k].clk # CLOCK_INVALID

(* a pass of the loop that got its PPS edge while the master handle is     *)
(* invalid: read_phc() was called and read no clock                        *)
C13_Witness ==
    /\ pc = "loop"
    /\ src = CLOCK_INVALID
    /\ it.pps = "ok" /\ it.phc = "nosample"
    /\ it.reads = <<>>

(***************************************************************************)
(* C14.  What a call of do_servo() leaves in the servo (state, drift,      *)
(* last_ts) does not depend on whether its clock adjustment succeeded: it  *)
(* is what the call leaves when the adjustment succeeds, so a run with     *)
(* failed adjustments goes through the servo values of the run without     *)
(* them; and the program stays in the loop after the call.                 *)
(***************************************************************************)
AdjustFailed(i) == \E k \in 1..Len(i.cmds) : ~i.cmds[k].ok

C14_AdjustFailureIgnored ==
    [][ ServoCalled =>
          /\ servo' = do_servo(servo, src, dst, it'.offset, it'.ts,
                               kp, ki, TRUE).srv
          /\ pc' = "loop" ]_vars

(* the step commanded by the fourth call failed, and the servo is in       *)
(* SAMPLE_N all the same                                                   *)
C14_Witness ==
    /\ pc = "loop" /\ calls = 4 /\ servo.state = SAMPLE_N
    /\ it.called /\ AdjustFailed(it)
    /\ it.cmds[1].op = "step"

(***************************************************************************)
(* C16.  A call of do_servo() leaves in last_ts the time stamp it was      *)
(* given, in every servo state and whether or not the correction was       *)
(* clamped; a pass of the loop without a call leaves last_ts as it was.    *)
(***************************************************************************)
C16_LastTsIsTsPassed ==
    [][ IF ServoCalled
        THEN /\ servo'.last_ts = it'.ts
             /\ it'.ts = (IF fd > 0 THEN pps_ts' ELSE phc_ts')
        ELSE servo'.last_ts = servo.last_ts ]_vars

(* a clamped call in SAMPLE_N, at a PPS edge later than the edge before    *)
C16_Witness ==
    /\ calls = 5 /\ it.called /\ servo.state = SAMPLE_N
    /\ FreqCmd(it, Dbl(-max_ppb))
    /\ it.ts = 1500000000
    /\ servo.last_ts = 1500000000

(***************************************************************************)
(* C17.  A call of do_servo() issues at most one command, and to the       *)
(* destination clock only, never to the source: in SAMPLE_0 one frequency  *)
(* command of 0 ppb, in SAMPLE_1 none, in SAMPLE_3 one step of -offset and *)
(* no frequency command.  These three cases leave drift as it was, so      *)
(* drift is 0 until the call in SAMPLE_2.                                  *)
(***************************************************************************)
StepCmd(i, ns) ==
    /\ Len(i.cmds) = 1
    /\ i.cmds[1].op = "step"
    /\ i.cmds[1].clk = dst
    /\ i.cmds[1].tv_sec * NS_PER_SEC + i.cmds[1].tv_usec = ns

C17_InitCommands ==
    [][ ServoCalled =>
          /\ Len(it'.cmds) <= 1
          /\ \A k \in 1..Len(it'.cmds) :
                it'.cmds[k].clk = dst /\ it'.cmds[k].clk # src
          /\ servo.state = SAMPLE_0 =>
                FreqCmd(it', Dbl(0)) /\ servo'.drift = servo.drift
          /\ servo.state = SAMPLE_1 =>
                it'.cmds = <<>> /\ servo'.drift = servo.drift
          /\ servo.state = SAMPLE_3 =>
                StepCmd(it', -it'.offset) /\ servo'.drift = servo.drift
          /\ servo.state <= SAMPLE_2 => servo.drift = Dbl(0) ]_vars

(* the fourth call, in SAMPLE_3, stepped the destination clock back by the *)
(* offset it was given while drift kept the value measured in SAMPLE_2     *)
C17_Witness ==
    /\ calls = 4 /\ it.called /\ servo.state = SAMPLE_N
    /\ it.offset = 512000
    /\ StepCmd(it, -512000)
    /\ servo.drift # Dbl(0)

(***************************************************************************)
(* C15.  The loop has no exit: a step taken in the loop ends in the loop,  *)
(* in every state of the loop a pass can be taken, and a run that enters   *)
(* the loop takes a pass again and again, whatever the samplers and the    *)
(* adjustments answer: from every state of the loop another pass is        *)
(* eventually taken.                                                       *)
(***************************************************************************)
C15_LoopNeverExits ==
    /\ [][ pc = "loop" => pc' = "loop" ]_vars
    /\ [](pc = "loop" => ENABLED CountedPass)
    /\ <>[](pc # "loop") \/ []<><<CountedPass>>_vars

(* in the loop after an even number of passes, five or more of them with  *)
(* a servo call and the latest with a failed PPS fetch                     *)
C15_Witness ==
    /\ pc = "loop" /\ calls > SAMPLE_N
    /\ it.pps = "fail"
    /\ tick = 0

(***************************************************************************)
(* C18.  The kind of sample the servo gets is settled at startup: the      *)
(* configuration does not change in the loop; with a PPS device            *)
(* configured every call of do_servo() gets the offset and the time stamp  *)
(* read_pps() stored in that pass, without one every call gets the offset  *)
(* and the time stamp read_phc() stored in that pass; a pass calls the     *)
(* servo at most once.                                                     *)
(***************************************************************************)
C18_SampleKindFixed ==
    [][ /\ pc = "loop" => config' = config
        /\ calls' \in {calls, calls + 1}
        /\ ServoCalled =>
              IF device # NULL
              THEN /\ it'.pps = "ok" /\ it'.phc = "ok"
                   /\ it'.offset = pps_offset'
                   /\ it'.ts = pps_ts'
              ELSE /\ it'.pps = "none" /\ it'.phc = "ok"
                   /\ it'.offset = phc_offset'
                   /\ it'.ts = phc_ts' ]_vars

(* a call in PPS mode got the edge's offset 512000 and time stamp while    *)
(* the direct read of the same pass had stored another offset              *)
C18_Witness ==
    /\ device # NULL /\ it.called /\ calls = 3
    /\ it.offset = 512000 /\ it.ts = 1000512000
    /\ pps_offset = 512000 /\ pps_ts = 1000512000
    /\ phc_offset # 512000 /\ phc_ts # 1000512000

(***************************************************************************)
(* C19.  With a PPS device configured and an invalid master handle the     *)
(* program enters the loop, and there read_phc() reports no sample in      *)
(* every pass that reaches it: the servo is never called and stays in      *)
(* SAMPLE_0 as constructed, and no clock is read, set, adjusted or         *)
(* stepped.                                                                *)
(***************************************************************************)
C19_PpsWithoutMaster ==
    (pc = "loop" /\ device # NULL /\ src = CLOCK_INVALID) =>
        /\ calls = 0
        /\ servo = [last_ts |-> 0, drift |-> Dbl(0), state |-> SAMPLE_0]
        /\ ~it.called
        /\ it.phc \in {"none", "nosample"}
        /\ it.reads = <<>>
        /\ it.cmds = <<>>
        /\ set_log = <<>>

(* no -s option at all, the PPS device open: a pass fetched its edge and   *)
(* read_phc() reported no sample                                           *)
C19_Witness ==
    /\ pc = "loop"
    /\ device # NULL /\ fd > 0
    /\ src = CLOCK_INVALID /\ open_errs = {}
    /\ it.pps = "ok" /\ pps_ts = 1500000000
    /\ it.phc = "nosample"
    /\ servo.state = SAMPLE_0

(***************************************************************************)
(* C20.  The destination clock's time is set at most once in a run: once   *)
(* the loop is entered it has been set exactly once if the master handle   *)
(* is valid and not at all if it is invalid, no pass of the loop sets it,  *)
(* and the time it is set to is the time read from the master.             *)
(***************************************************************************)
C20_TimeSetOnceFromMaster ==
    /\ Len(set_log) <= 1
    /\ pc \in {"getopt", "check", "open_pps", "set_time"} => set_log = <<>>
    /\ pc = "loop" => (Len(set_log) = 1 <=> src # CLOCK_INVALID)
    /\ \A k \in 1..Len(set_log) :
          /\ set_log[k].clk = dst
          /\ set_log[k].from = src
          /\ set_log[k].read_ok
          /\ set_log[k].time \in SrcTimes

====
